---- MODULE Spec2Model ----
(***************************************************************************)
(* Bank stress-test engine (api/main.py, api/src/eve.py, api/src/nii.py). *)
(*                                                                         *)
(* A request carries a parsed table (pandas DataFrame) and StressParams.   *)
(* run_stress normalizes the table, resolves the effective deposit beta,   *)
(* checks the equity base and then runs the EVE, NII and liquidity         *)
(* calculators once per shock.                                             *)
(*                                                                         *)
(* Numbers are exact rationals <<n, d>> with d > 0 in lowest terms; the    *)
(* pandas missing value NaN is <<0, 0>>, float("inf") is <<1, 0>> and a    *)
(* text cell that pd.to_numeric cannot parse is BadCell.  Strings are      *)
(* sequences of one-character strings so that lower(), upper() and         *)
(* substring search are computed, not assumed.                             *)
(***************************************************************************)
EXTENDS Integers, Sequences, FiniteSets, TLC

\* ------------------------------------------------------------------ bounds
MaxRows == 2
MaxShocks == 2
MaxPairRows == 1

\* ----------------------------------------------------------------- strings
UpperChars == <<"A","B","C","D","E","F","G","H","I","J","K","L","M",
                "N","O","P","Q","R","S","T","U","V","W","X","Y","Z">>
LowerChars == <<"a","b","c","d","e","f","g","h","i","j","k","l","m",
                "n","o","p","q","r","s","t","u","v","w","x","y","z">>

\* the lower-case and upper-case form of every cased character
LowerOf == [c \in {UpperChars[i] : i \in 1..Len(UpperChars)} |->
              LowerChars[CHOOSE i \in 1..Len(UpperChars) : UpperChars[i] = c]]
UpperOf == [c \in {LowerChars[i] : i \in 1..Len(LowerChars)} |->
              UpperChars[CHOOSE i \in 1..Len(LowerChars) : LowerChars[i] = c]]

lower_char(c) == IF c \in DOMAIN LowerOf THEN LowerOf[c] ELSE c

upper_char(c) == IF c \in DOMAIN UpperOf THEN UpperOf[c] ELSE c

\* str.lower()
lower(s) == [i \in 1..Len(s) |-> lower_char(s[i])]

\* str.upper()
upper(s) == [i \in 1..Len(s) |-> upper_char(s[i])]

\* Python's  sub in s
contains(s, sub) ==
  \E i \in 1..(Len(s) - Len(sub) + 1) : SubSeq(s, i, i + Len(sub) - 1) = sub

\* Series.str.contains(sub, case=False)
contains_nocase(s, sub) == contains(lower(s), lower(sub))

\* F applied to the value of e, with e evaluated once
with_value(e, F(_)) == CHOOSE y \in {F(v) : v \in {e}} : TRUE

\* ----------------------------------------------------------------- numbers
NaN == <<0, 0>>
Inf == <<1, 0>>
BadCell == <<0, -1>>
Zero == <<0, 1>>

AbsInt(n) == IF n < 0 THEN -n ELSE n

RECURSIVE GCD(_, _)
GCD(a, b) == IF b = 0 THEN a ELSE GCD(b, a % b)

\* the rational n/d (d # 0) in lowest terms with a positive denominator
Rat(n, d) ==
  LET g == GCD(AbsInt(n), AbsInt(d))
      s == IF d < 0 THEN -1 ELSE 1
  IN  <<s * (n \div g), s * (d \div g)>>

isfinite(x) == x[2] > 0

RAdd(x, y) ==
  IF ~isfinite(x) \/ ~isfinite(y) THEN NaN
  ELSE LET g == GCD(x[2], y[2])
           l == (x[2] \div g) * y[2]
       IN  Rat(x[1] * (l \div x[2]) + y[1] * (l \div y[2]), l)

RNeg(x) == IF isfinite(x) THEN <<-x[1], x[2]>> ELSE x

RSub(x, y) == RAdd(x, RNeg(y))

RMul(x, y) ==
  IF ~isfinite(x) \/ ~isfinite(y) THEN NaN
  ELSE LET g1 == GCD(AbsInt(x[1]), y[2])
           g2 == GCD(AbsInt(y[1]), x[2])
       IN  Rat((x[1] \div g1) * (y[1] \div g2), (x[2] \div g2) * (y[2] \div g1))

\* x / y for y # 0
RDiv(x, y) ==
  IF ~isfinite(x) \/ ~isfinite(y) THEN NaN
  ELSE RMul(x, Rat(y[2], y[1]))

RAbs(x) == IF isfinite(x) THEN <<AbsInt(x[1]), x[2]>> ELSE x

\* x <= y on finite rationals and +inf
RLeq(x, y) ==
  IF y = Inf THEN TRUE
  ELSE IF x = Inf THEN FALSE
  ELSE RSub(y, x)[1] >= 0

\* pd.to_numeric(cell, errors="coerce")
to_numeric(c) == IF c = BadCell THEN NaN ELSE c

\* Series.fillna(v)
fillna(c, v) == IF c = NaN THEN v ELSE c

\* --------------------------------------------------------------- DataFrame
\* A DataFrame is [cols |-> set of column names, rows |-> sequence of rows];
\* a row is a function from the column names to cells.

\* for col in cols: df[col] = value computed per row from that column
\* (adds the columns that are absent)
set_cols(df, cols, F(_, _)) ==
  with_value(df, LAMBDA d :
    [cols |-> d.cols \cup cols,
     rows |-> [i \in 1..Len(d.rows) |->
                [c \in (DOMAIN d.rows[i]) \cup cols |->
                   IF c \in cols THEN F(d.rows[i], c) ELSE d.rows[i][c]]]])

\* df[col] = value computed per row
set_col(df, col, F(_)) == set_cols(df, {col}, LAMBDA r, c : F(r))

\* the rows whose mask entry is TRUE, in table order
RECURSIVE masked(_, _)
masked(rows, mask) ==
  IF rows = <<>> THEN <<>>
  ELSE IF Head(mask) THEN <<Head(rows)>> \o masked(Tail(rows), Tail(mask))
  ELSE masked(Tail(rows), Tail(mask))

\* df[mask] / df.loc[mask]
select_rows(rows, P(_)) ==
  with_value(rows, LAMBDA rs : masked(rs, [i \in 1..Len(rs) |-> P(rs[i])]))

\* Series.sum() (0.0 for an empty Series)
RECURSIVE series_sum(_)
series_sum(vals) ==
  IF vals = <<>> THEN Zero ELSE RAdd(Head(vals), series_sum(Tail(vals)))

\* the Series of a per-row value, summed
sum_rows(rows, V(_)) ==
  with_value(rows, LAMBDA rs : series_sum([i \in 1..Len(rs) |-> V(rs[i])]))

s_asset == <<"a","s","s","e","t">>
s_liability == <<"l","i","a","b","i","l","i","t","y">>
s_equity == <<"e","q","u","i","t","y">>
s_cash == <<"c","a","s","h">>
s_deposit == <<"d","e","p","o","s","i","t">>
s_AFS == <<"A","F","S">>
s_DEPOSITS == <<"D","E","P","O","S","I","T","S">>
s_core == <<"c","o","r","e">>
s_empty == <<>>

SideNames == {s_asset, s_liability, s_equity}

REQUIRED == {"type", "name", "amount", "rate", "duration", "category",
             "fixed_float", "float_share", "repricing_bucket"}

\* ------------------------------------------------------------- Normalizer
\* infer_side with type consulted before category
infer_side_type_first(row) ==
  LET c == lower(row["category"])
      t == lower(row["type"])
  IN  IF t \in SideNames THEN t
      ELSE IF c \in SideNames THEN c
      ELSE IF contains(lower(row["name"]), s_equity) \/ t = s_equity THEN s_equity
      ELSE IF row["amount"][1] >= 0 THEN s_asset ELSE s_liability

infer_side(row) ==
  LET c == lower(row["category"])
      t == lower(row["type"])
  IN  IF c \in SideNames THEN c
      ELSE IF t \in SideNames THEN t
      ELSE IF contains(lower(row["name"]), s_equity) \/ t = s_equity THEN s_equity
      ELSE IF row["amount"][1] >= 0 THEN s_asset ELSE s_liability

\* the set REQUIRED - set(df.columns) of api/main.py line 68
missing_columns(df) == REQUIRED \ df.cols

\* body of _normalize_df after the required-column check
normalize_df(df) ==
  LET d1 == set_cols(df, {"type", "fixed_float"}, LAMBDA r, c : lower(r[c]))
      d2 == set_col(d1, "category_up", LAMBDA r : upper(r["category"]))
      d3 == set_cols(d2, {"amount", "rate", "duration", "float_share"},
                     LAMBDA r, c : fillna(to_numeric(r[c]), Zero))
      d4 == set_col(d3, "deposit_beta",
                    LAMBDA r : IF "deposit_beta" \notin df.cols THEN Zero
                               ELSE fillna(to_numeric(r["deposit_beta"]), Zero))
      d5 == set_col(d4, "stability",
                    LAMBDA r : IF "stability" \notin df.cols THEN s_empty
                               ELSE lower(r["stability"]))
      d6 == set_col(d5, "side", infer_side)
      d7 == set_cols(d6, {"is_cash", "is_afs"},
                     LAMBDA r, c : IF c = "is_cash" THEN lower(r["name"]) = s_cash
                                   ELSE r["category_up"] = s_AFS)
  IN  set_col(d7, "is_deposit",
              LAMBDA r : r["side"] = s_liability
                         /\ (contains_nocase(r["name"], s_deposit)
                             \/ r["category_up"] = s_DEPOSITS))

\* ------------------------------------------------------------ calculators
BpsPerUnit == 10000
Half == Rat(1, 2)
One == Rat(1, 1)

\* dy = shock_bps / 10_000.0
dy_of(shock_bps) == Rat(shock_bps, BpsPerUnit)

\* the formulation of the command-line eve_change (src/src/eve.py lines 18-21),
\* which flips the sign of every liability's delta_pv
row_delta_pv_liab_flipped(r, dy) ==
  LET v == RMul(r["amount"],
                RAdd(RMul(RNeg(r["duration"]), dy),
                     RMul(RMul(Half, r["convexity"]), RMul(dy, dy))))
  IN  IF r["side"] = s_liability THEN RNeg(v) ELSE v

\* the convexity term without its dy ** 2 factor
row_delta_pv_no_dy2(r, dy) ==
  RMul(r["amount"],
       RAdd(RMul(RNeg(r["duration"]), dy), RMul(Half, r["convexity"])))

\* line 19 of eve_change, for one row of non_equity:
\* amount * (-duration * dy + 0.5 * convexity * dy ** 2)
row_delta_pv(r, dy) ==
  RMul(r["amount"],
       RAdd(RMul(RNeg(r["duration"]), dy),
            RMul(RMul(Half, r["convexity"]), RMul(dy, dy))))

\* the for-loop of eve_change that writes amount, duration and convexity back
\* into the frame it was handed (an absent column is created as 0.0)
eve_coerce(df) ==
  set_cols(df, {"amount", "duration", "convexity"},
           LAMBDA r, c : IF c \notin df.cols THEN Zero
                         ELSE fillna(to_numeric(r[c]), Zero))

\* eve_change indexes df["side"]: KeyError when the column is absent
eve_raises(df) == "side" \notin df.cols

\* lines 16-38 of eve_change on the coerced frame d
eve_result(d, shock_bps) ==
  LET dy == dy_of(shock_bps)
      dpv(r) == row_delta_pv(r, dy)
      equity == sum_rows(select_rows(d.rows, LAMBDA r : r["side"] = s_equity),
                         LAMBDA r : fillna(to_numeric(r["amount"]), Zero))
      non_equity == select_rows(d.rows,
                       LAMBDA r : r["side"] \in {s_asset, s_liability})
      assets == select_rows(non_equity, LAMBDA r : r["side"] = s_asset)
      liabs == select_rows(non_equity, LAMBDA r : r["side"] = s_liability)
      by_asset == [i \in 1..Len(assets) |->
                     [name |-> assets[i]["name"], delta_pv |-> dpv(assets[i])]]
      by_liab == [i \in 1..Len(liabs) |->
                    [name |-> liabs[i]["name"], delta_pv |-> dpv(liabs[i])]]
  IN  with_value(<<sum_rows(assets, dpv), sum_rows(liabs, dpv), equity>>,
        LAMBDA v :
          [shock_bps |-> shock_bps,
           assets_delta_pv |-> v[1],
           liabs_delta_pv |-> v[2],
           delta_eve |-> RAdd(v[1], v[2]),
           equity |-> v[3],
           delta_eve_pct_equity |->
              IF v[3] # Zero THEN RDiv(RAdd(v[1], v[2]), v[3]) ELSE NaN,
           by_asset |-> by_asset,
           by_liab |-> by_liab])

\* eve_change(df, shock_bps): the returned dict, and the frame as it leaves it
eve_change(df, shock_bps) ==
  with_value(eve_coerce(df),
             LAMBDA d : [df |-> d, res |-> eve_result(d, shock_bps)])

\* post_rate with the beta column applied to the asset rows as well
nii_post_rate_beta_everywhere(r, dy, liab_beta_col) ==
  IF r["side"] \in {s_asset, s_liability}
  THEN RAdd(r["rate"], RMul(r[liab_beta_col], dy))
  ELSE r["rate"]

\* post_rate of project_nii_12m for one row of non_equity
nii_post_rate(r, dy, liab_beta_col) ==
  IF r["side"] = s_asset THEN RAdd(r["rate"], RMul(r["float_share"], dy))
  ELSE IF r["side"] = s_liability
       THEN RAdd(r["rate"], RMul(r[liab_beta_col], dy))
  ELSE r["rate"]

\* project_nii_12m raises ValueError when side, rate or amount is absent
nii_raises(df) == {"side", "rate", "amount"} \ df.cols # {}

\* lines 16-29 of project_nii_12m: the coerced copy of the non-equity rows
nii_frame(df, liab_beta_col) ==
  LET numeric == {"rate", "amount", "float_share", liab_beta_col}
      ne0 == [cols |-> df.cols,
              rows |-> select_rows(df.rows,
                          LAMBDA r : r["side"] \in {s_asset, s_liability})]
      ne1 == set_cols(ne0, numeric,
                      LAMBDA r, c : IF c \in df.cols THEN to_numeric(r[c])
                                    ELSE Zero)
  IN  set_cols(ne1, numeric, LAMBDA r, c : fillna(r[c], Zero))

\* project_nii_12m(df, shock_bps, liab_beta_col)
project_nii_12m(df, shock_bps, liab_beta_col) ==
  LET dy == dy_of(shock_bps)
      sums(ne) ==
        <<sum_rows(ne.rows, LAMBDA r : RMul(r["rate"], r["amount"])),
          sum_rows(ne.rows, LAMBDA r : RMul(nii_post_rate(r, dy, liab_beta_col),
                                            r["amount"]))>>
  IN  with_value(nii_frame(df, liab_beta_col), LAMBDA ne :
        with_value(sums(ne), LAMBDA v :
          LET baseline_nii == v[1]
              post_nii == v[2]
          IN  [shock_bps |-> shock_bps,
               baseline_nii |-> IF isfinite(baseline_nii) THEN baseline_nii ELSE Zero,
               post_nii |-> IF isfinite(post_nii) THEN post_nii ELSE Zero,
               delta_nii |-> IF isfinite(post_nii) /\ isfinite(baseline_nii)
                             THEN RSub(post_nii, baseline_nii) ELSE Zero]))

\* _liq_with_params with core deposits left out of the run-off
liq_with_params_core_sticky(df, afs_haircut, deposit_runoff) ==
  LET hqla == RAdd(sum_rows(select_rows(df.rows, LAMBDA r : r["is_cash"]),
                            LAMBDA r : r["amount"]),
                   sum_rows(select_rows(df.rows, LAMBDA r : r["is_afs"]),
                            LAMBDA r : RMul(r["amount"], RSub(One, afs_haircut))))
      deposits_amt ==
        sum_rows(select_rows(df.rows, LAMBDA r : r["is_deposit"]
                                                  /\ r["stability"] # s_core),
                 LAMBDA r : r["amount"])
      stressed_out == RMul(RAbs(deposits_amt), deposit_runoff)
  IN  with_value(<<hqla, stressed_out>>, LAMBDA v :
        [hqla |-> v[1],
         stressed_outflows |-> v[2],
         coverage_ratio |-> IF v[2] # Zero THEN RDiv(v[1], v[2]) ELSE Inf])

\* _liq_with_params with the retained share used as the run-off
liq_with_params_retained(df, afs_haircut, deposit_runoff) ==
  LET hqla == RAdd(sum_rows(select_rows(df.rows, LAMBDA r : r["is_cash"]),
                            LAMBDA r : r["amount"]),
                   sum_rows(select_rows(df.rows, LAMBDA r : r["is_afs"]),
                            LAMBDA r : RMul(r["amount"], RSub(One, afs_haircut))))
      deposits_amt == sum_rows(select_rows(df.rows, LAMBDA r : r["is_deposit"]),
                               LAMBDA r : r["amount"])
      stressed_out == RMul(RAbs(deposits_amt), RSub(One, deposit_runoff))
  IN  with_value(<<hqla, stressed_out>>, LAMBDA v :
        [hqla |-> v[1],
         stressed_outflows |-> v[2],
         coverage_ratio |-> IF v[2] # Zero THEN RDiv(v[1], v[2]) ELSE Inf])

\* _liq_with_params(df_in, afs_haircut, deposit_runoff)
liq_with_params(df, afs_haircut, deposit_runoff) ==
  LET hqla_cash == sum_rows(select_rows(df.rows, LAMBDA r : r["is_cash"]),
                            LAMBDA r : r["amount"])
      hqla == RAdd(hqla_cash,
                   sum_rows(select_rows(df.rows, LAMBDA r : r["is_afs"]),
                            LAMBDA r : RMul(r["amount"], RSub(One, afs_haircut))))
      deposits_amt == sum_rows(select_rows(df.rows, LAMBDA r : r["is_deposit"]),
                               LAMBDA r : r["amount"])
      stressed_out == RMul(RAbs(deposits_amt), deposit_runoff)
  IN  with_value(<<hqla, stressed_out>>, LAMBDA v :
        [hqla |-> v[1],
         stressed_outflows |-> v[2],
         coverage_ratio |-> IF v[2] # Zero THEN RDiv(v[1], v[2]) ELSE Inf])

\* the closure _row_beta of run_stress
row_beta(row, params) ==
  IF row["is_deposit"]
  THEN IF row["stability"] = s_core
       THEN params.deposit_beta_core ELSE params.deposit_beta_noncore
  ELSE row["deposit_beta"]

\* equity base as the sum of the absolute amounts
equity_base_sum_of_abs(df) ==
  sum_rows(select_rows(df.rows, LAMBDA r : r["side"] = s_equity),
           LAMBDA r : RAbs(r["amount"]))

\* equity_sum and equity_base of run_stress
equity_base_of(df) ==
  RAbs(sum_rows(select_rows(df.rows, LAMBDA r : r["side"] = s_equity),
                LAMBDA r : r["amount"]))

\* ------------------------------------------------------------------ state
ReqIds == {1, 2}

VARIABLES
  req,          \* req[i]: the StressRequest, csv_text already parsed to a frame
  pc,           \* pc[i]: position of run_stress for request i
  df,           \* df[i]: the request-local DataFrame
  equity_base,  \* equity_base[i]: local of run_stress, NaN until computed
  it,           \* it[i]: number of shocks the for-loop has taken from the list
  out_rows,     \* out_rows[i]: the ScenarioResult list being assembled
  resp,         \* resp[i]: responses returned (at most one)
  err           \* err[i]: exceptions that left run_stress

vars == <<req, pc, df, equity_base, it, out_rows, resp, err>>

NoDf == [cols |-> {}, rows |-> <<>>]

HTTPException(status, detail, missing) ==
  [status |-> status, detail |-> detail, missing |-> missing]

\* _read_csv_text -> _normalize_df: lines 140, 67-104
ReadCsv(i) ==
  /\ pc[i] = "recv"
  /\ IF missing_columns(req[i].table) # {}
     THEN /\ err' = [err EXCEPT ![i] = Append(@,
                        HTTPException(400, "Missing columns",
                                      missing_columns(req[i].table)))]
          /\ pc' = [pc EXCEPT ![i] = "error"]
          /\ UNCHANGED df
     ELSE /\ df' = [df EXCEPT ![i] = normalize_df(req[i].table)]
          /\ pc' = [pc EXCEPT ![i] = "normalized"]
          /\ UNCHANGED err
  /\ UNCHANGED <<req, equity_base, it, out_rows, resp>>

\* df["deposit_beta_eff"] = df.apply(_row_beta, axis=1): lines 142-147
ResolveBeta(i) ==
  /\ pc[i] = "normalized"
  /\ df' = [df EXCEPT ![i] =
              set_col(@, "deposit_beta_eff",
                      LAMBDA r : row_beta(r, req[i].params))]
  /\ pc' = [pc EXCEPT ![i] = "beta"]
  /\ UNCHANGED <<req, equity_base, it, out_rows, resp, err>>

\* the equity computation without the zero check of lines 151-152
EquityCheck_unguarded(i) ==
  /\ pc[i] = "beta"
  /\ equity_base' = [equity_base EXCEPT ![i] = equity_base_of(df[i])]
  /\ pc' = [pc EXCEPT ![i] = "loop"]
  /\ UNCHANGED <<req, df, it, out_rows, resp, err>>

\* lines 149-152
EquityCheck(i) ==
  /\ pc[i] = "beta"
  /\ equity_base' = [equity_base EXCEPT ![i] = equity_base_of(df[i])]
  /\ IF equity_base_of(df[i]) = Zero
     THEN /\ err' = [err EXCEPT ![i] = Append(@,
                        HTTPException(400, "Equity base is zero", {}))]
          /\ pc' = [pc EXCEPT ![i] = "error"]
     ELSE /\ pc' = [pc EXCEPT ![i] = "loop"]
          /\ UNCHANGED err
  /\ UNCHANGED <<req, df, it, out_rows, resp>>

\* the body of the for-loop for shock s: the calculators' results, the frame
\* as eve_change leaves it, and the exception that escapes, if any
loop_body(d, params, eb, s) ==
  IF eve_raises(d)
  THEN [raised |-> "KeyError", df |-> eve_coerce(d), row |-> <<>>]
  ELSE LET eve == eve_change(d, s)
       IN  IF nii_raises(eve.df)
           THEN [raised |-> "ValueError", df |-> eve.df, row |-> <<>>]
           ELSE LET nii_res == project_nii_12m(eve.df, s, "deposit_beta_eff")
                    liq_res == liq_with_params(eve.df, params.afs_haircut,
                                               params.deposit_runoff)
                IN  IF eb = Zero
                    THEN [raised |-> "ZeroDivisionError", df |-> eve.df,
                          row |-> <<>>]
                    ELSE [raised |-> "",
                          df |-> eve.df,
                          row |-> <<[shock_bps |-> s,
                                     eve_change |-> eve.res.delta_eve,
                                     eve_pct_equity |->
                                        RDiv(eve.res.delta_eve, eb),
                                     nii_delta |-> nii_res.delta_nii,
                                     lcr_hqla |-> liq_res.hqla,
                                     lcr_outflows |-> liq_res.stressed_outflows,
                                     lcr_coverage |-> liq_res.coverage_ratio]>>]

\* the for-loop iterating over the distinct shocks only
ScenarioStep_dedup(i) ==
  /\ pc[i] = "loop"
  /\ it[i] < Len(req[i].params.shocks_bps)
  /\ \E b \in {loop_body(df[i], req[i].params, equity_base[i],
                         req[i].params.shocks_bps[it[i] + 1])} :
        /\ it' = [it EXCEPT ![i] = @ + 1]
        /\ df' = [df EXCEPT ![i] = b.df]
        /\ out_rows' = [out_rows EXCEPT ![i] =
              IF \E k \in 1..it[i] :
                    req[i].params.shocks_bps[k] = req[i].params.shocks_bps[it[i] + 1]
              THEN @ ELSE @ \o b.row]
        /\ UNCHANGED <<pc, err>>
  /\ UNCHANGED <<req, equity_base, resp>>

\* one iteration of the for-loop: lines 155-167
ScenarioStep(i) ==
  /\ pc[i] = "loop"
  /\ it[i] < Len(req[i].params.shocks_bps)
  /\ \E b \in {loop_body(df[i], req[i].params, equity_base[i],
                         req[i].params.shocks_bps[it[i] + 1])} :
        /\ it' = [it EXCEPT ![i] = @ + 1]
        /\ df' = [df EXCEPT ![i] = b.df]
        /\ out_rows' = [out_rows EXCEPT ![i] = @ \o b.row]
        /\ IF b.raised # ""
           THEN /\ err' = [err EXCEPT ![i] = Append(@,
                              HTTPException(500, b.raised, {}))]
                /\ pc' = [pc EXCEPT ![i] = "error"]
           ELSE UNCHANGED <<pc, err>>
  /\ UNCHANGED <<req, equity_base, resp>>

\* return StressResponse(equity=..., results=out_rows): line 168
Return(i) ==
  /\ pc[i] = "loop"
  /\ it[i] = Len(req[i].params.shocks_bps)
  /\ resp' = [resp EXCEPT ![i] = Append(@,
                 [equity |-> equity_base[i], results |-> out_rows[i]])]
  /\ pc' = [pc EXCEPT ![i] = "done"]
  /\ UNCHANGED <<req, df, equity_base, it, out_rows, err>>

Next ==
  \E i \in ReqIds :
     \/ ReadCsv(i)
     \/ ResolveBeta(i)
     \/ EquityCheck(i)
     \/ ScenarioStep(i)
     \/ Return(i)

\* ----------------------------------------------------------------- inputs
OPTIONAL == {"deposit_beta", "stability", "convexity"}

RawRow(type, name, category, amount, rate, duration, fixed_float, float_share, repricing_bucket, deposit_beta, stability, convexity) ==
  [c \in REQUIRED \cup OPTIONAL |->
     CASE c = "type" -> type
       [] c = "name" -> name
       [] c = "category" -> category
       [] c = "amount" -> amount
       [] c = "rate" -> rate
       [] c = "duration" -> duration
       [] c = "fixed_float" -> fixed_float
       [] c = "float_share" -> float_share
       [] c = "repricing_bucket" -> repricing_bucket
       [] c = "deposit_beta" -> deposit_beta
       [] c = "stability" -> stability
       [] c = "convexity" -> convexity]

R_loan ==
  RawRow(<<"a","s","s","e","t">>,
         <<"L","o","a","n","s">>,
         <<"L","O","A","N","S">>,
         Rat(1000, 1), Rat(3, 100), Rat(5, 1), <<"F","i","x","e","d">>, Rat(0, 1),
         <<"5","Y">>, Rat(0, 1), <<>>, Rat(0, 1))

R_dep ==
  RawRow(<<"l","i","a","b","i","l","i","t","y">>,
         <<"C","u","s","t","o","m","e","r"," ","D","e","p","o","s","i","t","s">>,
         <<"D","E","P","O","S","I","T","S">>,
         Rat(800, 1), Rat(1, 100), Rat(1, 1), <<"f","l","o","a","t">>, Rat(0, 1),
         <<"1","Y">>, Rat(1, 2), <<"c","o","r","e">>, Rat(0, 1))

R_eq ==
  RawRow(<<"e","q","u","i","t","y">>,
         <<"E","q","u","i","t","y">>,
         <<"C","A","P","I","T","A","L">>,
         Rat(200, 1), Rat(0, 1), Rat(0, 1), <<"f","i","x","e","d">>, Rat(0, 1),
         <<"N","A">>, Rat(0, 1), <<>>, Rat(0, 1))

R_eqneg ==
  RawRow(<<"o","t","h","e","r">>,
         <<"R","e","t","a","i","n","e","d"," ","e","q","u","i","t","y">>,
         <<>>,
         Rat(-200, 1), Rat(0, 1), Rat(0, 1), <<"f","i","x","e","d">>, Rat(0, 1),
         <<"N","A">>, Rat(0, 1), <<>>, BadCell)

R_cash ==
  RawRow(<<"A","s","s","e","t">>,
         <<"C","a","s","h">>,
         <<"L","i","q","u","i","d">>,
         Rat(100, 1), Rat(0, 1), Rat(0, 1), <<"f","l","o","a","t">>, Rat(1, 1),
         <<"O","N">>, Rat(0, 1), <<>>, Rat(0, 1))

R_overdraft ==
  RawRow(<<"a","s","s","e","t">>,
         <<"C","A","S","H">>,
         <<"L","i","q","u","i","d">>,
         Rat(-50, 1), Rat(0, 1), Rat(0, 1), <<"f","l","o","a","t">>, Rat(1, 1),
         <<"O","N">>, Rat(0, 1), <<>>, Rat(0, 1))

R_afs ==
  RawRow(<<"s","e","c","u","r","i","t","y">>,
         <<"G","o","v"," ","B","o","n","d","s">>,
         <<"A","f","s">>,
         Rat(500, 1), Rat(2, 100), Rat(3, 1), <<"f","i","x","e","d">>, Rat(1, 2),
         <<"3","Y">>, Rat(1, 4), <<>>, Rat(20, 1))

R_hybrid ==
  RawRow(<<"L","I","A","B","I","L","I","T","Y">>,
         <<"H","y","b","r","i","d">>,
         <<"A","s","s","e","t">>,
         BadCell, Rat(4, 100), Rat(2, 1), <<"F","i","x","e","d">>, BadCell,
         <<"2","Y">>, BadCell, <<>>, BadCell)

R_term ==
  RawRow(<<"o","t","h","e","r">>,
         <<"T","e","r","m"," ","D","e","p","o","s","i","t">>,
         <<"M","I","S","C">>,
         Rat(-300, 1), Rat(2, 100), Rat(2, 1), <<"f","i","x","e","d">>, Rat(0, 1),
         <<"2","Y">>, Rat(1, 2), <<"N","o","n","c","o","r","e">>, Rat(10, 1))

R_whole ==
  RawRow(<<"l","i","a","b","i","l","i","t","y">>,
         <<"W","h","o","l","e","s","a","l","e">>,
         <<"F","U","N","D","I","N","G">>,
         Rat(400, 1), Rat(3, 100), Rat(1, 1), <<"f","l","o","a","t">>, Rat(1, 1),
         <<"1","Y">>, Rat(1, 2), <<"C","o","r","e">>, BadCell)

R_sav ==
  RawRow(<<"l","i","a","b","i","l","i","t","y">>,
         <<"S","a","v","i","n","g","s">>,
         <<"d","e","p","o","s","i","t","s">>,
         Rat(600, 1), Rat(1, 100), Rat(1, 1), <<"f","l","o","a","t">>, Rat(0, 1),
         <<"O","N">>, Rat(1, 5), <<>>, Rat(0, 1))

RowPool == {R_loan, R_dep, R_eq, R_eqneg, R_afs, R_hybrid, R_term, R_whole}

PairRowPool == {R_cash, R_overdraft, R_afs, R_term}

\* the worked scenario: one asset, one core deposit, equity
WorkedScenario == <<R_loan, R_dep, R_eq>>

SeqsUpTo(S, lo, hi) == UNION {[1..n -> S] : n \in lo..hi}

\* sequences of pairwise different elements of S
DistinctSeqsUpTo(S, lo, hi) ==
  {q \in SeqsUpTo(S, lo, hi) : \A a, b \in 1..Len(q) : q[a] = q[b] => a = b}

\* the frame pd.read_csv yields for a file holding the columns cols
Frame(rows, cols) ==
  [cols |-> cols, rows |-> [k \in 1..Len(rows) |-> [c \in cols |-> rows[k][c]]]]

\* files with every required column, with and without the optional ones
GoodColSets == {REQUIRED \cup OPTIONAL, REQUIRED}

\* files lacking required columns
BadColSets == {(REQUIRED \cup OPTIONAL) \ {"duration"},
               {"name", "amount", "category"}}

ShockPool == {0, 100}
PairShocks == {<<100>>, <<0, 100>>}
RunoffPool == {Zero, Rat(15, 100), Rat(1, 2)}

StressParams(shocks, haircut, runoff, core, noncore, lag) ==
  [shocks_bps |-> shocks, afs_haircut |-> haircut, deposit_runoff |-> runoff,
   deposit_beta_core |-> core, deposit_beta_noncore |-> noncore,
   lag_months |-> lag]

\* the parameters of the worked scenario, which are the defaults of StressParams
DefaultParams(shocks) ==
  StressParams(shocks, Rat(1, 10), Rat(15, 100), Rat(3, 10), Rat(6, 10), 1)

\* tables of up to MaxRows different rows, and the longest ones with the
\* capital row R_eq added (WorkedScenario is one of them)
Tables ==
  DistinctSeqsUpTo(RowPool, 1, MaxRows)
  \cup {rows \o <<R_eq>> :
          rows \in DistinctSeqsUpTo(RowPool \ {R_eq}, MaxRows, MaxRows)}

Requests ==
  {[table |-> Frame(rows, cols), params |-> DefaultParams(sh)] :
     rows \in Tables, cols \in GoodColSets,
     sh \in SeqsUpTo(ShockPool, 0, MaxShocks)}
  \cup
  {[table |-> Frame(rows, cols), params |-> DefaultParams(<<0, 100>>)] :
     rows \in Tables, cols \in BadColSets}

PairRequests ==
  {[table |-> Frame(<<R_eq, R_sav>> \o rows, REQUIRED \cup OPTIONAL),
    params |-> [DefaultParams(sh) EXCEPT !.deposit_runoff = ro]] :
     rows \in DistinctSeqsUpTo(PairRowPool, 1, MaxPairRows),
     sh \in PairShocks,
     ro \in RunoffPool}

\* the request q with the stability cell of row k replaced
with_stability(q, k, st) ==
  [q EXCEPT !.table.rows[k] = [c \in DOMAIN @ |->
                                 IF c = "stability" THEN st ELSE @[c]]]

\* requests that differ from q in one stability cell or in deposit_runoff
Variants(q) ==
  {q}
  \cup {[q EXCEPT !.params.deposit_runoff = ro] : ro \in RunoffPool}
  \cup {with_stability(q, k, st) :
          k \in 1..Len(q.table.rows), st \in {s_empty, s_core}}

NoReq == [table |-> NoDf, params |-> StressParams(<<>>, Zero, Zero, Zero, Zero, 0)]

InitLocals(active) ==
  /\ pc = [i \in ReqIds |-> IF i \in active THEN "recv" ELSE "idle"]
  /\ df = [i \in ReqIds |-> NoDf]
  /\ equity_base = [i \in ReqIds |-> NaN]
  /\ it = [i \in ReqIds |-> 0]
  /\ out_rows = [i \in ReqIds |-> <<>>]
  /\ resp = [i \in ReqIds |-> <<>>]
  /\ err = [i \in ReqIds |-> <<>>]

\* one request in flight
Init ==
  /\ \E q \in Requests : req = [i \in ReqIds |-> IF i = 1 THEN q ELSE NoReq]
  /\ InitLocals({1})

\* two requests in flight, the second a variant of the first
InitPair ==
  /\ \E q \in PairRequests : \E v \in Variants(q) :
        req = [i \in ReqIds |-> IF i = 1 THEN q ELSE v]
  /\ InitLocals(ReqIds)

Spec == Init /\ [][Next]_vars

SpecPair == InitPair /\ [][Next]_vars

\* ----------------------------------------------------------------- claims
Shocks(i) == req[i].params.shocks_bps

\* |sum of the amounts of the equity rows of frame d|
AbsEquitySum(d) ==
  RAbs(series_sum([k \in 1..Len(d.rows) |->
         IF d.rows[k]["side"] = s_equity THEN d.rows[k]["amount"] ELSE Zero]))

\* sum of the |amount| of the equity rows of frame d
SumAbsEquity(d) ==
  series_sum([k \in 1..Len(d.rows) |->
     IF d.rows[k]["side"] = s_equity THEN RAbs(d.rows[k]["amount"]) ELSE Zero])

RejectedForEquity(i) ==
  /\ pc[i] = "error"
  /\ \E k \in 1..Len(err[i]) : err[i][k].detail = "Equity base is zero"

\* C1: run_stress is all-or-nothing.  A request ends with one response that
\* holds one result per configured shock, or with exactly one error and no
\* response and no result; an error leaves run_stress only before the for-loop
\* has taken its first shock, and the loop is entered only with every required
\* column present and a non-zero equity base.
C1_AllOrNothing ==
  \A i \in ReqIds :
    /\ Len(resp[i]) + Len(err[i]) <= 1
    /\ pc[i] = "done" <=> Len(resp[i]) = 1
    /\ pc[i] = "error" <=> Len(err[i]) = 1
    /\ resp[i] # <<>> => Len(resp[i][1].results) = Len(Shocks(i))
    /\ err[i] # <<>> => it[i] = 0 /\ out_rows[i] = <<>>
    /\ pc[i] \in {"loop", "done"} =>
          /\ missing_columns(req[i].table) = {}
          /\ AbsEquitySum(df[i]) # Zero

\* a request with shocks and non-equity rows, rejected for its zero equity base
C1_Witness ==
  /\ RejectedForEquity(1)
  /\ Len(Shocks(1)) > 0
  /\ \E k \in 1..Len(df[1].rows) : df[1].rows[k]["side"] = s_asset

\* C2 as stated: the equity base is the sum of the absolute amounts of the
\* equity rows, and the run is rejected exactly when that sum is not greater
\* than zero.
C2_SumOfAbsolutes ==
  \A i \in ReqIds :
    equity_base[i] # NaN =>
      /\ equity_base[i] = SumAbsEquity(df[i])
      /\ RejectedForEquity(i) <=> ~(SumAbsEquity(df[i])[1] > 0)

\* C2 amended: the equity base is the absolute value of the sum of the amounts
\* of the equity rows, and the run is rejected exactly when that value is zero.
C2_AbsoluteOfSum ==
  \A i \in ReqIds :
    equity_base[i] # NaN =>
      /\ equity_base[i] = AbsEquitySum(df[i])
      /\ RejectedForEquity(i) <=> AbsEquitySum(df[i]) = Zero

\* equity rows of opposite sign that cancel: rejected although the sum of the
\* absolute amounts is positive
C2_Witness ==
  /\ RejectedForEquity(1)
  /\ equity_base[1] = Zero
  /\ SumAbsEquity(df[1])[1] > 0

\* C3: the results follow the shocks list: same length, results[k].shock_bps =
\* shocks[k] for every k, duplicates kept, and equal shocks carry equal results.
C3_ResultsFollowShocks ==
  \A i \in ReqIds :
    /\ \A k \in 1..Len(out_rows[i]) : out_rows[i][k].shock_bps = Shocks(i)[k]
    /\ resp[i] # <<>> =>
         LET rs == resp[i][1].results
         IN  /\ Len(rs) = Len(Shocks(i))
             /\ \A k \in 1..Len(rs) : rs[k].shock_bps = Shocks(i)[k]
             /\ \A k, l \in 1..Len(rs) :
                   Shocks(i)[k] = Shocks(i)[l] => rs[k] = rs[l]

\* a response for a list that repeats a non-zero shock, computed from a frame
\* that eve_change extended with the convexity column on the first shock
C3_Witness ==
  /\ pc[1] = "done"
  /\ \E k, l \in 1..Len(Shocks(1)) : k < l /\ Shocks(1)[k] = Shocks(1)[l]
                                     /\ Shocks(1)[k] # 0
  /\ "convexity" \notin req[1].table.cols
  /\ \E k \in 1..Len(resp[1][1].results) :
        resp[1][1].results[k].eve_change # Zero

\* C4: a shock of 0 bps yields delta_eve = 0 and delta_nii = 0 whatever the
\* rows hold.
C4_ZeroShock ==
  \A i \in ReqIds : \A k \in 1..Len(out_rows[i]) :
    out_rows[i][k].shock_bps = 0 =>
      /\ out_rows[i][k].eve_change = Zero
      /\ out_rows[i][k].nii_delta = Zero

\* a 0 bps result for a table with duration, convexity, float share and beta
\* all non-zero, whose 100 bps result is non-zero
C4_Witness ==
  /\ \E k \in 1..Len(out_rows[1]) : out_rows[1][k].shock_bps = 0
  /\ \E k \in 1..Len(out_rows[1]) :
        /\ out_rows[1][k].shock_bps = 100
        /\ out_rows[1][k].eve_change # Zero
        /\ out_rows[1][k].nii_delta # Zero
  /\ \E k \in 1..Len(df[1].rows) :
        /\ df[1].rows[k]["side"] = s_asset
        /\ df[1].rows[k]["convexity"] \notin {Zero, BadCell}
        /\ df[1].rows[k]["duration"] # Zero
        /\ df[1].rows[k]["float_share"] # Zero
  /\ \E k \in 1..Len(df[1].rows) :
        /\ df[1].rows[k]["side"] = s_liability
        /\ df[1].rows[k]["deposit_beta_eff"] # Zero

\* C5: every row gets exactly one side among asset, liability and equity, by
\* the first rule that matches on that row alone: category, then type, then
\* the equity hint of the name, then the sign of the amount.
C5_SidePriority ==
  \A i \in ReqIds : \A k \in 1..Len(df[i].rows) :
    LET raw == req[i].table.rows[k]
        side == df[i].rows[k]["side"]
        cat == lower(raw["category"])
        typ == lower(raw["type"])
        byCat == cat \in SideNames
        byTyp == typ \in SideNames
        byName == contains(lower(raw["name"]), s_equity) \/ typ = s_equity
        amount == fillna(to_numeric(raw["amount"]), Zero)
    IN  /\ side \in SideNames
        /\ byCat => side = cat
        /\ ~byCat /\ byTyp => side = typ
        /\ ~byCat /\ ~byTyp /\ byName => side = s_equity
        /\ ~byCat /\ ~byTyp /\ ~byName /\ amount[1] >= 0 => side = s_asset
        /\ ~byCat /\ ~byTyp /\ ~byName /\ amount[1] < 0 => side = s_liability

\* a row with category asset and type liability, resolved to asset, after a row
\* that fell through to the sign of its amount
C5_Witness ==
  /\ Len(df[1].rows) >= 2
  /\ lower(req[1].table.rows[1]["type"]) \notin SideNames
  /\ lower(req[1].table.rows[1]["category"]) \notin SideNames
  /\ df[1].rows[1]["side"] = s_liability
  /\ lower(req[1].table.rows[2]["category"]) = s_asset
  /\ lower(req[1].table.rows[2]["type"]) = s_liability
  /\ df[1].rows[2]["side"] = s_asset

\* sum over the asset and liability rows of frame d of
\* -(amount * duration) * dy + (amount * convexity) * dy^2 / 2, dy = s / 10000
EveSum(d, s) ==
  series_sum([k \in 1..Len(d.rows) |->
     IF d.rows[k]["side"] \in {s_asset, s_liability}
     THEN RAdd(RNeg(RMul(RMul(d.rows[k]["amount"], d.rows[k]["duration"]),
                         Rat(s, 10000))),
               RMul(RMul(d.rows[k]["amount"], d.rows[k]["convexity"]),
                    Rat(s * s, 200000000)))
     ELSE Zero])

\* the worked scenario: asset 1000 with duration 5, deposit liability 800 with
\* duration 1, equity 200, no convexity
IsWorkedScenario(d) ==
  /\ Len(d.rows) = 3
  /\ "convexity" \in d.cols
  /\ d.rows[1]["side"] = s_asset /\ d.rows[1]["amount"] = Rat(1000, 1)
  /\ d.rows[1]["duration"] = Rat(5, 1) /\ d.rows[1]["convexity"] = Zero
  /\ d.rows[2]["side"] = s_liability /\ d.rows[2]["is_deposit"]
  /\ d.rows[2]["amount"] = Rat(800, 1) /\ d.rows[2]["duration"] = Rat(1, 1)
  /\ d.rows[2]["convexity"] = Zero
  /\ d.rows[3]["side"] = s_equity /\ d.rows[3]["amount"] = Rat(200, 1)

C7_EffectiveBeta ==
  \A i \in ReqIds :
    "deposit_beta_eff" \in df[i].cols =>
      /\ \A k \in 1..Len(df[i].rows) :
           LET r == df[i].rows[k]
               raw == req[i].table.rows[k]
           IN  /\ r["is_deposit"] /\ r["stability"] = s_core =>
                     r["deposit_beta_eff"] = req[i].params.deposit_beta_core
               /\ r["is_deposit"] /\ r["stability"] # s_core =>
                     r["deposit_beta_eff"] = req[i].params.deposit_beta_noncore
               /\ ~r["is_deposit"] => r["deposit_beta_eff"] = r["deposit_beta"]
               /\ r["stability"] =
                     IF "stability" \in req[i].table.cols
                     THEN lower(raw["stability"]) ELSE s_empty
               /\ r["deposit_beta"] =
                     IF "deposit_beta" \in req[i].table.cols
                     THEN fillna(to_numeric(raw["deposit_beta"]), Zero) ELSE Zero
      /\ \A k \in 1..Len(out_rows[i]) :
           out_rows[i][k].nii_delta =
             RMul(Rat(out_rows[i][k].shock_bps, 10000),
                  series_sum([n \in 1..Len(df[i].rows) |->
                     LET r == df[i].rows[n]
                     IN  IF r["side"] = s_asset
                         THEN RMul(r["amount"], r["float_share"])
                         ELSE IF r["side"] = s_liability
                         THEN RMul(r["amount"], r["deposit_beta_eff"])
                         ELSE Zero]))

\* a core deposit and a deposit that is not core, each with a deposit_beta of
\* its own that the override replaces, answered at a non-zero shock
C7_Witness ==
  /\ \E k \in 1..Len(out_rows[1]) :
        out_rows[1][k].shock_bps # 0 /\ out_rows[1][k].nii_delta # Zero
  /\ \E k \in 1..Len(df[1].rows) :
        /\ df[1].rows[k]["is_deposit"]
        /\ df[1].rows[k]["stability"] = s_core
        /\ df[1].rows[k]["deposit_beta_eff"] # df[1].rows[k]["deposit_beta"]
  /\ \E k \in 1..Len(df[1].rows) :
        /\ df[1].rows[k]["is_deposit"]
        /\ df[1].rows[k]["stability"] # s_core
        /\ df[1].rows[k]["deposit_beta_eff"] # df[1].rows[k]["deposit_beta"]

\* requests a and b are identical except that one deposit row's stability is
\* "" in a and "core" in b, with different core and non-core betas
DiffersOnlyInStability(a, b) ==
  /\ req[a].params = req[b].params
  /\ req[a].params.deposit_beta_core # req[a].params.deposit_beta_noncore
  /\ req[a].table.cols = req[b].table.cols
  /\ "stability" \in req[a].table.cols
  /\ Len(req[a].table.rows) = Len(req[b].table.rows)
  /\ \E k \in 1..Len(req[a].table.rows) :
        /\ \A j \in 1..Len(req[a].table.rows) :
              \A c \in req[a].table.cols :
                 (j # k \/ c # "stability") =>
                    req[a].table.rows[j][c] = req[b].table.rows[j][c]
        /\ req[a].table.rows[k]["stability"] = s_empty
        /\ req[b].table.rows[k]["stability"] = s_core
        /\ df[a].rows[k]["is_deposit"]

Results(i) == resp[i][1].results

\* C8: two requests that differ only in one deposit row's stability ("" against
\* "core") agree, scenario by scenario, on delta_eve, hqla, stressed_outflows
\* and coverage_ratio.
C8_StabilityOnlyMovesNii ==
  \A a, b \in ReqIds :
    (pc[a] = "done" /\ pc[b] = "done" /\ DiffersOnlyInStability(a, b)) =>
      /\ Len(Results(a)) = Len(Results(b))
      /\ \A k \in 1..Len(Results(a)) :
           /\ Results(a)[k].eve_change = Results(b)[k].eve_change
           /\ Results(a)[k].lcr_hqla = Results(b)[k].lcr_hqla
           /\ Results(a)[k].lcr_outflows = Results(b)[k].lcr_outflows
           /\ Results(a)[k].lcr_coverage = Results(b)[k].lcr_coverage

\* both requests answered, and the stability tag did move delta_nii while the
\* outflows are non-zero
C8_Witness ==
  /\ pc[1] = "done" /\ pc[2] = "done"
  /\ DiffersOnlyInStability(1, 2)
  /\ \E k \in 1..Len(Results(1)) :
        /\ Results(1)[k].nii_delta # Results(2)[k].nii_delta
        /\ Results(1)[k].lcr_outflows # Zero
        /\ Results(1)[k].eve_change # Zero

\* requests a and b hold the same table and afs_haircut, and a's deposit_runoff
\* is at most b's
SameTableRunoffLeq(a, b) ==
  /\ req[a].table = req[b].table
  /\ req[a].params.afs_haircut = req[b].params.afs_haircut
  /\ RLeq(req[a].params.deposit_runoff, req[b].params.deposit_runoff)

\* C9 as stated: for a fixed table and afs_haircut the coverage ratio does not
\* increase with deposit_runoff, whatever the sign of HQLA.
C9_MonotoneAnyHqla ==
  \A a, b \in ReqIds :
    (pc[a] = "done" /\ pc[b] = "done" /\ SameTableRunoffLeq(a, b)) =>
      \A k \in 1..Len(Results(a)) : \A l \in 1..Len(Results(b)) :
         RLeq(Results(b)[l].lcr_coverage, Results(a)[k].lcr_coverage)

\* C9 amended: for a fixed table and afs_haircut whose HQLA is not negative,
\* the coverage ratio does not increase with deposit_runoff.
C9_MonotoneNonNegativeHqla ==
  \A a, b \in ReqIds :
    (pc[a] = "done" /\ pc[b] = "done" /\ SameTableRunoffLeq(a, b)) =>
      \A k \in 1..Len(Results(a)) : \A l \in 1..Len(Results(b)) :
         Results(a)[k].lcr_hqla[1] >= 0 =>
            RLeq(Results(b)[l].lcr_coverage, Results(a)[k].lcr_coverage)

\* positive HQLA, two different non-zero run-off rates, and the coverage ratio
\* strictly lower at the higher rate
C9_Witness ==
  /\ pc[1] = "done" /\ pc[2] = "done"
  /\ SameTableRunoffLeq(1, 2)
  /\ req[1].params.deposit_runoff # Zero
  /\ req[1].params.deposit_runoff # req[2].params.deposit_runoff
  /\ \E k \in 1..Len(Results(1)) :
        /\ Results(1)[k].lcr_hqla[1] > 0
        /\ Results(1)[k].lcr_coverage # Results(2)[k].lcr_coverage
        /\ RLeq(Results(2)[k].lcr_coverage, Results(1)[k].lcr_coverage)

\* the frame run_stress holds when it enters the for-loop
FrameBeforeLoop(i) ==
  set_col(normalize_df(req[i].table), "deposit_beta_eff",
          LAMBDA r : row_beta(r, req[i].params))

\* C10: during and after the scenario loop the table is the one that entered
\* the loop: no calculator adds a column or rewrites a cell.
C10_TableReadOnlyInLoop ==
  \A i \in ReqIds :
    pc[i] \in {"loop", "done"} => df[i] = FrameBeforeLoop(i)

====
